---- MODULE Spec2Model ----
(***************************************************************************)
(* CoinFlipper (src/src/seq/coin_flipper.rs): a bit buffer over a source   *)
(* of uniform words (next, all_next), the doubling sampler gen_ratio and   *)
(* the reciprocal fast path gen_ratio_one_over.                            *)
(*                                                                         *)
(* The integer widths are scaled so that the words of the source can be    *)
(* enumerated: chunk is WordBits wide (u32::BITS in the source), usize is  *)
(* UsizeBits wide (usize::BITS), and a u32 counter wraps at 2^U32Bits.     *)
(* The scaling keeps UsizeBits - 1 > WordBits, as 63 > 32 in the source,   *)
(* so that a zero run can be longer than one word.                         *)
(***************************************************************************)
EXTENDS Integers, Sequences, FiniteSets, TLC

\* ------------------------------------------------------------------ bounds
\* width of chunk and of a word of the source (u32::BITS)
WordBits == 3
\* width of usize (usize::BITS)
UsizeBits == 5
\* width at which the u32 arithmetic of n wraps
U32Bits == 6
\* words one call may draw from the source
MaxWords == 3
\* words given to the ensemble of continuations
MaxDraws == 3

Pow2(k) == 2 ^ k
WordMod == Pow2(WordBits)
Words == 0 .. (WordMod - 1)
UsizeMod == Pow2(UsizeBits)
UsizeMax == UsizeMod - 1
Usizes == 0 .. UsizeMax
U32Max == Pow2(U32Bits) - 1

\* --------------------------------------------------- integer primitives
\* u32::trailing_zeros on a word of WordBits bits
trailing_zeros(x) ==
  IF x = 0 THEN WordBits
  ELSE CHOOSE k \in 0 .. (WordBits - 1) : x % Pow2(k + 1) = Pow2(k)

\* usize::leading_zeros
leading_zeros(x) ==
  IF x = 0 THEN UsizeBits
  ELSE UsizeBits - 1 - (CHOOSE k \in 0 .. (UsizeBits - 1) : Pow2(k) <= x /\ x < Pow2(k + 1))

\* u32::wrapping_shr: the shift amount is taken modulo the width
wrapping_shr(x, k) == x \div Pow2(k % WordBits)

\* u32::saturating_sub
saturating_sub(a, b) == IF a >= b THEN a - b ELSE 0

\* usize::wrapping_sub and usize::wrapping_add
wrapping_sub(a, b) == (a - b) % UsizeMod
wrapping_add(a, b) == (a + b) % UsizeMod

\* bit i of x
Bit(x, i) == (x \div Pow2(i)) % 2

\* ---------------------------------------------------------------- next
\* next without self.chunk = self.chunk.wrapping_shr(1): the bit is read again
next_no_shift(c, r, w) ==
  LET refill == r = 0
      c1 == IF refill THEN w ELSE c
      r1 == IF refill THEN WordBits - 1 ELSE r - 1
  IN  [chunk |-> c1,
       chunk_remaining |-> r1,
       result |-> trailing_zeros(c1) > 0,
       drew |-> refill]

\* next whose refill sets chunk_remaining to the whole width (the - 1 forgotten)
next_refill_full(c, r, w) ==
  LET refill == r = 0
      c1 == IF refill THEN w ELSE c
      r1 == IF refill THEN WordBits ELSE r - 1
  IN  [chunk |-> wrapping_shr(c1, 1),
       chunk_remaining |-> r1,
       result |-> trailing_zeros(c1) > 0,
       drew |-> refill]

\* next that tests the chunk it had before the refill
next_tests_before_refill(c, r, w) ==
  LET refill == r = 0
      c1 == IF refill THEN w ELSE c
      r1 == IF refill THEN WordBits - 1 ELSE r - 1
  IN  [chunk |-> wrapping_shr(c1, 1),
       chunk_remaining |-> r1,
       result |-> trailing_zeros(c) > 0,
       drew |-> refill]

\* fn next: one bit from the buffer, refilled from the word w when empty.
next(c, r, w) ==
  LET refill == r = 0
      c1 == IF refill THEN w ELSE c
      r1 == IF refill THEN WordBits - 1 ELSE r - 1
  IN  [chunk |-> wrapping_shr(c1, 1),
       chunk_remaining |-> r1,
       result |-> trailing_zeros(c1) > 0,
       drew |-> refill]

\* ------------------------------------------------------------ all_next
\* all_next whose refill adds the width to chunk_remaining where it assigns it
all_next_body_adds_width(c, r, n_, z, w, oc) ==
  IF z >= r
  THEN [kind |-> "loop", chunk |-> w, chunk_remaining |-> r + WordBits,
        n |-> n_ - r, zeros |-> trailing_zeros(w), result |-> FALSE, drew |-> TRUE]
  ELSE IF oc /\ z + 1 >= WordBits
  THEN [kind |-> "panic", chunk |-> c, chunk_remaining |-> r - (z + 1),
        n |-> n_, zeros |-> z, result |-> FALSE, drew |-> FALSE]
  ELSE [kind |-> "return", chunk |-> c \div Pow2((z + 1) % WordBits),
        chunk_remaining |-> r - (z + 1),
        n |-> n_, zeros |-> z, result |-> FALSE, drew |-> FALSE]

\* Body of the loop of all_next (chunk_remaining < n). oc: the build checks
\* arithmetic overflow (debug) or wraps (release).
all_next_body(c, r, n_, z, w, oc) ==
  IF z >= r
  THEN [kind |-> "loop", chunk |-> w, chunk_remaining |-> WordBits,
        n |-> n_ - r, zeros |-> trailing_zeros(w), result |-> FALSE, drew |-> TRUE]
  ELSE IF oc /\ z + 1 >= WordBits
  THEN [kind |-> "panic", chunk |-> c, chunk_remaining |-> r - (z + 1),
        n |-> n_, zeros |-> z, result |-> FALSE, drew |-> FALSE]
  ELSE [kind |-> "return", chunk |-> c \div Pow2((z + 1) % WordBits),
        chunk_remaining |-> r - (z + 1),
        n |-> n_, zeros |-> z, result |-> FALSE, drew |-> FALSE]

\* all_next after the loop, consuming one bit more than the run when it succeeds
all_next_tail_one_more(c, r, n_, z) ==
  LET res == z >= n_
      bits_to_consume == IF res THEN n_ + 1 ELSE z + 1
  IN  [kind |-> "return", chunk |-> wrapping_shr(c, bits_to_consume),
       chunk_remaining |-> saturating_sub(r, bits_to_consume),
       n |-> n_, zeros |-> z, result |-> res, drew |-> FALSE]

\* all_next after the loop without the shift of chunk
all_next_tail_keeps_chunk(c, r, n_, z) ==
  LET res == z >= n_
      bits_to_consume == IF res THEN n_ ELSE z + 1
  IN  [kind |-> "return", chunk |-> c,
       chunk_remaining |-> saturating_sub(r, bits_to_consume),
       n |-> n_, zeros |-> z, result |-> res, drew |-> FALSE]

\* The statements of all_next after the loop (chunk_remaining >= n).
all_next_tail(c, r, n_, z) ==
  LET res == z >= n_
      bits_to_consume == IF res THEN n_ ELSE z + 1
  IN  [kind |-> "return", chunk |-> wrapping_shr(c, bits_to_consume),
       chunk_remaining |-> saturating_sub(r, bits_to_consume),
       n |-> n_, zeros |-> z, result |-> res, drew |-> FALSE]

\* ----------------------------------------------------------- gen_ratio
\* gen_ratio whose tails always returns false (the case 2n >= d forgotten)
gen_ratio_body_tails_false(num, den, heads) ==
  IF 2 * num <= UsizeMax
  THEN IF heads
       THEN [kind |-> "loop", numerator |-> 2 * num, result |-> FALSE]
       ELSE [kind |-> "return", numerator |-> num, result |-> FALSE]
  ELSE IF heads
       THEN [kind |-> "return", numerator |-> num, result |-> TRUE]
       ELSE [kind |-> "return", numerator |-> num, result |-> FALSE]

\* gen_ratio without the overflow branch: the doubling wraps (wrapping_mul)
gen_ratio_body_wrapping_mul(num, den, heads) ==
  LET next_numerator == (2 * num) % UsizeMod
  IN  IF heads
      THEN [kind |-> "loop", numerator |-> next_numerator, result |-> FALSE]
      ELSE IF next_numerator < den
           THEN [kind |-> "return", numerator |-> num, result |-> FALSE]
           ELSE [kind |-> "loop", numerator |-> next_numerator - den, result |-> FALSE]

\* gen_ratio whose tails test is inverted: false when 2n >= d, else 2n - d wrapped
gen_ratio_body_inverted_test(num, den, heads) ==
  IF 2 * num <= UsizeMax
  THEN IF heads
       THEN [kind |-> "loop", numerator |-> 2 * num, result |-> FALSE]
       ELSE IF 2 * num >= den
            THEN [kind |-> "return", numerator |-> num, result |-> FALSE]
            ELSE [kind |-> "loop", numerator |-> wrapping_sub(2 * num, den), result |-> FALSE]
  ELSE IF heads
       THEN [kind |-> "return", numerator |-> num, result |-> TRUE]
       ELSE [kind |-> "loop", numerator |-> wrapping_add(wrapping_sub(num, den), num),
             result |-> FALSE]

\* gen_ratio whose tails test is next_numerator <= denominator
gen_ratio_body_le(num, den, heads) ==
  IF 2 * num <= UsizeMax
  THEN IF heads
       THEN [kind |-> "loop", numerator |-> 2 * num, result |-> FALSE]
       ELSE IF 2 * num <= den
            THEN [kind |-> "return", numerator |-> num, result |-> FALSE]
            ELSE [kind |-> "loop", numerator |-> 2 * num - den, result |-> FALSE]
  ELSE IF heads
       THEN [kind |-> "return", numerator |-> num, result |-> TRUE]
       ELSE [kind |-> "loop", numerator |-> wrapping_add(wrapping_sub(num, den), num),
             result |-> FALSE]

\* gen_ratio whose overflow branch drops the final wrapping_add(numerator)
gen_ratio_body_no_add(num, den, heads) ==
  IF 2 * num <= UsizeMax
  THEN IF heads
       THEN [kind |-> "loop", numerator |-> 2 * num, result |-> FALSE]
       ELSE IF 2 * num < den
            THEN [kind |-> "return", numerator |-> num, result |-> FALSE]
            ELSE [kind |-> "loop", numerator |-> 2 * num - den, result |-> FALSE]
  ELSE IF heads
       THEN [kind |-> "return", numerator |-> num, result |-> TRUE]
       ELSE [kind |-> "loop", numerator |-> wrapping_sub(num, den), result |-> FALSE]

\* gen_ratio whose heads leaves the numerator as it is (the doubling forgotten)
gen_ratio_body_heads_keeps(num, den, heads) ==
  IF 2 * num <= UsizeMax
  THEN IF heads
       THEN [kind |-> "loop", numerator |-> num, result |-> FALSE]
       ELSE IF 2 * num < den
            THEN [kind |-> "return", numerator |-> num, result |-> FALSE]
            ELSE [kind |-> "loop", numerator |-> 2 * num - den, result |-> FALSE]
  ELSE IF heads
       THEN [kind |-> "return", numerator |-> num, result |-> TRUE]
       ELSE [kind |-> "loop", numerator |-> wrapping_add(wrapping_sub(num, den), num),
             result |-> FALSE]

\* Body of the loop of gen_ratio (numerator < denominator), heads being the
\* value next() returned.
gen_ratio_body(num, den, heads) ==
  IF 2 * num <= UsizeMax
  THEN IF heads
       THEN [kind |-> "loop", numerator |-> 2 * num, result |-> FALSE]
       ELSE IF 2 * num < den
            THEN [kind |-> "return", numerator |-> num, result |-> FALSE]
            ELSE [kind |-> "loop", numerator |-> 2 * num - den, result |-> FALSE]
  ELSE IF heads
       THEN [kind |-> "return", numerator |-> num, result |-> TRUE]
       ELSE [kind |-> "loop", numerator |-> wrapping_add(wrapping_sub(num, den), num),
             result |-> FALSE]

\* -------------------------------------------------- gen_ratio_one_over
\* n without the - 1: the bit length of the denominator
one_over_n_bit_length(den, oc) ==
  [kind |-> "ok", n |-> UsizeBits - leading_zeros(den)]

\* n rounded up: the bit length of denominator - 1
one_over_n_rounds_up(den, oc) ==
  [kind |-> "ok", n |-> IF den <= 1 THEN 0 ELSE UsizeBits - leading_zeros(den - 1)]

\* let n = usize::BITS - denominator.leading_zeros() - 1, in u32
one_over_n(den, oc) ==
  LET lz == leading_zeros(den)
  IN  IF UsizeBits - lz >= 1
      THEN [kind |-> "ok", n |-> UsizeBits - lz - 1]
      ELSE IF oc THEN [kind |-> "panic", n |-> 0]
           ELSE [kind |-> "ok", n |-> U32Max]

\* gen_ratio entered with n itself where 1 << n is meant
one_shl_passes_n(n_, oc) == [kind |-> "ok", value |-> n_]

\* 1 << n on usize
one_shl(n_, oc) ==
  IF n_ < UsizeBits THEN [kind |-> "ok", value |-> Pow2(n_)]
  ELSE IF oc THEN [kind |-> "panic", value |-> 0]
       ELSE [kind |-> "ok", value |-> Pow2(n_ % UsizeBits)]

\* ------------------------------------------------------------- the state
VARIABLES
  chunk,            \* CoinFlipper.chunk
  chunk_remaining,  \* CoinFlipper.chunk_remaining
  overflow_checks,  \* the build: TRUE panics on arithmetic overflow, FALSE wraps
  pc,               \* "idle", "all_next", "gen_ratio", "ret", "panicked"
  call,             \* the call in progress: its operation, its arguments and the buffer it started from
  n,                \* all_next: the local n
  zeros,            \* all_next: the local zeros
  numerator,        \* gen_ratio: the local numerator
  result,           \* the value returned to the caller
  flip,             \* gen_ratio: the value of the last self.next()
  drawn,            \* number of rng.next_u32() calls made by the call in progress
  hist,             \* the last word drawn before the running bit-buffer operation, then the words it drew
  e_call, e_words, e_live, e_true, e_false, e_panic, \* the ensemble of section "distribution"
  p_call, p_words, p_a, p_b  \* the two runs of section "paired runs"

vars == <<chunk, chunk_remaining, overflow_checks, pc, call, n, zeros, numerator,
          result, flip, drawn, hist, e_call, e_words, e_live, e_true, e_false, e_panic,
          p_call, p_words, p_a, p_b>>
flipper_vars == <<chunk, chunk_remaining, overflow_checks, pc, call, n, zeros, numerator,
                  result, flip, drawn, hist>>
ensemble_vars == <<e_call, e_words, e_live, e_true, e_false, e_panic>>
pair_vars == <<p_call, p_words, p_a, p_b>>

Last(s) == s[Len(s)]
Callable == pc = "idle"
Call(o, n_, num, den) ==
  [op |-> o, n |-> n_, numerator |-> num, denominator |-> den,
   chunk |-> chunk, chunk_remaining |-> chunk_remaining]

\* CoinFlipper::new
FlipperInit ==
  /\ chunk = 0
  /\ chunk_remaining = 0
  /\ overflow_checks \in BOOLEAN
  /\ pc = "idle"
  /\ call = [op |-> "none", n |-> 0, numerator |-> 0, denominator |-> 0,
             chunk |-> 0, chunk_remaining |-> 0]
  /\ n = 0
  /\ zeros = 0
  /\ numerator = 0
  /\ result = FALSE
  /\ flip = FALSE
  /\ drawn = 0
  /\ hist = <<0>>

EnsembleIdle ==
  /\ e_call = [op |-> "none"]
  /\ e_words = 0
  /\ e_live = << >>
  /\ e_true = 0
  /\ e_false = 0
  /\ e_panic = 0

PairIdle ==
  /\ p_call = [kind |-> "none"]
  /\ p_words = 0
  /\ p_a = [pc |-> "none"]
  /\ p_b = [pc |-> "none"]

Init == FlipperInit /\ EnsembleIdle /\ PairIdle

\* The words the source may yield for a step that draws one (needs), none otherwise.
Source(needs) == IF needs THEN Words ELSE {0}

\* a call of next()
call_next ==
  /\ Callable
  /\ \E w \in Source(chunk_remaining = 0) :
       LET o == next(chunk, chunk_remaining, w)
       IN  /\ chunk' = o.chunk
           /\ chunk_remaining' = o.chunk_remaining
           /\ result' = o.result
           /\ drawn' = IF o.drew THEN 1 ELSE 0
           /\ hist' = <<IF o.drew THEN w ELSE Last(hist)>>
  /\ call' = Call("next", 0, 0, 0)
  /\ pc' = "ret"
  /\ n' = 0 /\ zeros' = 0 /\ numerator' = 0 /\ flip' = FALSE
  /\ UNCHANGED overflow_checks

\* a call of all_next(n0): let mut zeros = self.chunk.trailing_zeros()
call_all_next ==
  /\ Callable
  /\ \E n0 \in 0 .. (UsizeBits - 1) :
       /\ call' = Call("all_next", n0, 0, 0)
       /\ n' = n0
  /\ zeros' = trailing_zeros(chunk)
  /\ pc' = "all_next"
  /\ drawn' = 0
  /\ hist' = <<Last(hist)>>
  /\ numerator' = 0 /\ result' = FALSE /\ flip' = FALSE
  /\ UNCHANGED <<chunk, chunk_remaining, overflow_checks>>

\* all_next: one pass of while self.chunk_remaining < n
all_next_loop ==
  /\ pc = "all_next"
  /\ chunk_remaining < n
  /\ (zeros >= chunk_remaining) => drawn < MaxWords
  /\ \E w \in Source(zeros >= chunk_remaining) :
       LET o == all_next_body(chunk, chunk_remaining, n, zeros, w, overflow_checks)
       IN  /\ chunk' = o.chunk
           /\ chunk_remaining' = o.chunk_remaining
           /\ n' = o.n
           /\ zeros' = o.zeros
           /\ drawn' = IF o.drew THEN drawn + 1 ELSE drawn
           /\ hist' = IF o.drew THEN Append(hist, w) ELSE hist
           /\ result' = o.result
           /\ pc' = CASE o.kind = "loop" -> "all_next"
                      [] o.kind = "panic" -> "panicked"
                      [] o.kind = "return" -> "ret"
  /\ UNCHANGED <<overflow_checks, call, numerator, flip>>

\* all_next: the statements after the loop; in gen_ratio_one_over the caller
\* then returns false or enters gen_ratio(1 << n, denominator)
all_next_exit ==
  /\ pc = "all_next"
  /\ chunk_remaining >= n
  /\ LET o == all_next_tail(chunk, chunk_remaining, n, zeros)
         s == one_shl(call.n, overflow_checks)
     IN  /\ chunk' = o.chunk
         /\ chunk_remaining' = o.chunk_remaining
         /\ IF call.op = "gen_ratio_one_over" /\ o.result
            THEN /\ pc' = IF s.kind = "panic" THEN "panicked" ELSE "gen_ratio"
                 /\ numerator' = s.value
                 /\ result' = FALSE
            ELSE /\ pc' = "ret"
                 /\ numerator' = numerator
                 /\ result' = o.result
  /\ UNCHANGED <<overflow_checks, call, n, zeros, flip, drawn, hist>>

\* a call of gen_ratio(num, den)
call_gen_ratio ==
  /\ Callable
  /\ \E num \in Usizes, den \in Usizes :
       /\ call' = Call("gen_ratio", 0, num, den)
       /\ numerator' = num
  /\ pc' = "gen_ratio"
  /\ drawn' = 0
  /\ hist' = <<Last(hist)>>
  /\ n' = 0 /\ zeros' = 0 /\ result' = FALSE /\ flip' = FALSE
  /\ UNCHANGED <<chunk, chunk_remaining, overflow_checks>>

\* gen_ratio: one pass of while numerator < denominator, self.next() included
gen_ratio_loop ==
  /\ pc = "gen_ratio"
  /\ numerator < call.denominator
  /\ (chunk_remaining = 0) => drawn < MaxWords
  /\ \E w \in Source(chunk_remaining = 0) :
       LET b == next(chunk, chunk_remaining, w)
           o == gen_ratio_body(numerator, call.denominator, b.result)
       IN  /\ chunk' = b.chunk
           /\ chunk_remaining' = b.chunk_remaining
           /\ drawn' = IF b.drew THEN drawn + 1 ELSE drawn
           /\ hist' = <<IF b.drew THEN w ELSE Last(hist)>>
           /\ flip' = b.result
           /\ numerator' = o.numerator
           /\ result' = o.result
           /\ pc' = IF o.kind = "return" THEN "ret" ELSE "gen_ratio"
  /\ UNCHANGED <<overflow_checks, call, n, zeros>>

\* gen_ratio: the loop condition fails, the function returns true
gen_ratio_exit ==
  /\ pc = "gen_ratio"
  /\ numerator >= call.denominator
  /\ result' = TRUE
  /\ pc' = "ret"
  /\ UNCHANGED <<chunk, chunk_remaining, overflow_checks, call, n, zeros, numerator,
                 flip, drawn, hist>>

\* a call of gen_ratio_one_over(den), up to the entry of all_next(n)
call_gen_ratio_one_over ==
  /\ Callable
  /\ \E den \in Usizes :
       LET o == one_over_n(den, overflow_checks)
       IN  /\ call' = Call("gen_ratio_one_over", o.n, 0, den)
           /\ n' = o.n
           /\ pc' = IF o.kind = "panic" THEN "panicked" ELSE "all_next"
  /\ zeros' = trailing_zeros(chunk)
  /\ drawn' = 0
  /\ hist' = <<Last(hist)>>
  /\ numerator' = 0 /\ result' = FALSE /\ flip' = FALSE
  /\ UNCHANGED <<chunk, chunk_remaining, overflow_checks>>

\* the caller takes the returned value; the flipper waits for the next call
caller_resumes ==
  /\ pc = "ret"
  /\ pc' = "idle"
  /\ call' = [op |-> "none", n |-> 0, numerator |-> 0, denominator |-> 0,
              chunk |-> chunk, chunk_remaining |-> chunk_remaining]
  /\ n' = 0 /\ zeros' = 0 /\ numerator' = 0 /\ result' = FALSE /\ flip' = FALSE
  /\ drawn' = 0
  /\ hist' = <<Last(hist)>>
  /\ UNCHANGED <<chunk, chunk_remaining, overflow_checks>>

Next ==
  \/ call_next /\ UNCHANGED <<ensemble_vars, pair_vars>>
  \/ call_all_next /\ UNCHANGED <<ensemble_vars, pair_vars>>
  \/ all_next_loop /\ UNCHANGED <<ensemble_vars, pair_vars>>
  \/ all_next_exit /\ UNCHANGED <<ensemble_vars, pair_vars>>
  \/ call_gen_ratio /\ UNCHANGED <<ensemble_vars, pair_vars>>
  \/ gen_ratio_loop /\ UNCHANGED <<ensemble_vars, pair_vars>>
  \/ gen_ratio_exit /\ UNCHANGED <<ensemble_vars, pair_vars>>
  \/ call_gen_ratio_one_over /\ UNCHANGED <<ensemble_vars, pair_vars>>
  \/ caller_resumes /\ UNCHANGED <<ensemble_vars, pair_vars>>

Spec == Init /\ [][Next]_vars

\* ------------------------------------------------------------ distribution
\* The ensemble of all continuations of the bit stream: every value of the
\* unconsumed bits of the buffer, then every word the source can yield. A
\* configuration is a flipper inside one call; e_live gives the number of
\* continuations that lead to each configuration that still waits for a word,
\* e_true, e_false and e_panic count the continuations on which the call has
\* returned true, returned false or panicked. After e_words draws the
\* continuations are the 2^(e_call.chunk_remaining + WordBits * e_words)
\* values of the bits seen so far.

Cfg(p, c, r, n_, z, num, res) ==
  [pc |-> p, chunk |-> c, chunk_remaining |-> r, n |-> n_, zeros |-> z,
   numerator |-> num, result |-> res]

\* the configuration at the entry of the call ec, the buffer holding chunk c
e_start(ec, c) ==
  IF ec.op = "gen_ratio"
  THEN Cfg("gen_ratio", c, ec.chunk_remaining, 0, 0, ec.numerator, FALSE)
  ELSE IF ec.op = "next"
  THEN Cfg("next", c, ec.chunk_remaining, 0, 0, 0, FALSE)
  ELSE IF ec.op = "all_next"
  THEN Cfg("all_next", c, ec.chunk_remaining, ec.n, trailing_zeros(c), 0, FALSE)
  ELSE LET o == one_over_n(ec.denominator, ec.overflow_checks)
       IN  Cfg(IF o.kind = "panic" THEN "panicked" ELSE "all_next",
               c, ec.chunk_remaining, o.n, trailing_zeros(c), 0, FALSE)

\* the configuration waits for a word of the source
e_needs(ec, f) ==
  \/ f.pc = "all_next" /\ f.chunk_remaining < f.n /\ f.zeros >= f.chunk_remaining
  \/ f.pc = "gen_ratio" /\ f.numerator < ec.denominator /\ f.chunk_remaining = 0
  \/ f.pc = "next" /\ f.chunk_remaining = 0

e_done(f) == f.pc \in {"ret", "panicked"}

\* one step of the call: call_next, all_next_loop, all_next_exit, gen_ratio_loop
\* or gen_ratio_exit
e_step(ec, f, w) ==
  IF f.pc = "next"
  THEN LET b == next(f.chunk, f.chunk_remaining, w)
       IN  Cfg("ret", b.chunk, b.chunk_remaining, f.n, f.zeros, f.numerator, b.result)
  ELSE IF f.pc = "all_next" /\ f.chunk_remaining < f.n
  THEN LET o == all_next_body(f.chunk, f.chunk_remaining, f.n, f.zeros, w, ec.overflow_checks)
       IN  Cfg(CASE o.kind = "loop" -> "all_next"
                 [] o.kind = "panic" -> "panicked"
                 [] o.kind = "return" -> "ret",
               o.chunk, o.chunk_remaining, o.n, o.zeros, f.numerator, o.result)
  ELSE IF f.pc = "all_next"
  THEN LET o == all_next_tail(f.chunk, f.chunk_remaining, f.n, f.zeros)
           s == one_shl(ec.n, ec.overflow_checks)
       IN  IF ec.op = "gen_ratio_one_over" /\ o.result
           THEN Cfg(IF s.kind = "panic" THEN "panicked" ELSE "gen_ratio",
                    o.chunk, o.chunk_remaining, f.n, f.zeros, s.value, FALSE)
           ELSE Cfg("ret", o.chunk, o.chunk_remaining, f.n, f.zeros, f.numerator, o.result)
  ELSE IF f.numerator < ec.denominator
  THEN LET b == next(f.chunk, f.chunk_remaining, w)
           o == gen_ratio_body(f.numerator, ec.denominator, b.result)
       IN  Cfg(IF o.kind = "return" THEN "ret" ELSE "gen_ratio",
               b.chunk, b.chunk_remaining, f.n, f.zeros, o.numerator, o.result)
  ELSE Cfg("ret", f.chunk, f.chunk_remaining, f.n, f.zeros, f.numerator, TRUE)

\* run the call until it has ended or waits for a word
RECURSIVE e_settle(_, _)
e_settle(ec, f) ==
  IF e_done(f) \/ e_needs(ec, f) THEN f ELSE e_settle(ec, e_step(ec, f, 0))

\* the sum of g[x] over the x of S
RECURSIVE SumOver(_, _)
SumOver(g, S) ==
  IF S = {} THEN 0
  ELSE LET x == CHOOSE y \in S : TRUE IN g[x] + SumOver(g, S \ {x})

\* how the call stands in a configuration
e_kind(f) ==
  IF f.pc = "ret" THEN (IF f.result THEN "true" ELSE "false")
  ELSE IF f.pc = "panicked" THEN "panic"
  ELSE "live"

\* Outcomes are triples <<origin, input, configuration reached>>, the origin
\* carrying wt[origin] continuations. The number of continuations whose
\* configuration is of the kind k, and the bag of the live configurations:
Weight(wt, outs, k) ==
  LET S == {t \in outs : e_kind(t[3]) = k}
  IN  SumOver([t \in S |-> wt[t[1]]], S)
LiveBag(wt, outs) ==
  LET S == {t \in outs : e_kind(t[3]) = "live"}
  IN  [x \in {t[3] : t \in S} |->
         LET T == {t \in S : t[3] = x} IN SumOver([t \in T |-> wt[t[1]]], T)]

\* the outcomes at the entry of the call: one per value of the unconsumed bits
e_entry(ec) ==
  {<<0, low, e_settle(ec, e_start(ec, ec.stale + low))>> :
     low \in 0 .. (Pow2(ec.chunk_remaining) - 1)}

\* the outcomes of giving every live configuration every word
e_after(ec, g) ==
  {<<f, w, e_settle(ec, e_step(ec, f, w))>> : f \in DOMAIN g, w \in Words}

\* The buffers a call can start from (an invariant of Spec): fewer than
\* WordBits unconsumed bits, and above them zeros, or the top bit alone when
\* chunk_remaining = 0.
EntryBuffers ==
  pc = "idle" =>
    /\ chunk_remaining <= WordBits - 1
    /\ \/ chunk < Pow2(chunk_remaining)
       \/ chunk_remaining = 0 /\ chunk = Pow2(WordBits - 1)

\* the calls of the ensemble: gen_ratio(numerator, denominator) and
\* gen_ratio_one_over(denominator), from a buffer of chunk_remaining unconsumed
\* bits; stale is the value of the bits of chunk above them (a shift by the
\* whole width leaves the top bit set with chunk_remaining = 0): the buffers
\* of EntryBuffers. gen_ratio has no operation that the overflow checks of the
\* build change.
ECalls ==
  {[op |-> "gen_ratio", numerator |-> num, denominator |-> den, n |-> 0,
    chunk_remaining |-> r, stale |-> st, overflow_checks |-> FALSE] :
      num \in Usizes, den \in Usizes,
      r \in 0 .. (WordBits - 1), st \in {0, Pow2(WordBits - 1)}}
  \cup
  {[op |-> "gen_ratio_one_over", numerator |-> 1, denominator |-> den,
    n |-> one_over_n(den, oc).n,
    chunk_remaining |-> r, stale |-> st, overflow_checks |-> oc] :
      den \in Usizes,
      r \in 0 .. (WordBits - 1), st \in {0, Pow2(WordBits - 1)}, oc \in BOOLEAN}

EnsembleInit ==
  /\ e_call \in {ec \in ECalls : ec.stale # 0 => ec.chunk_remaining = 0}
  /\ e_words = 0
  /\ LET outs == e_entry(e_call)
     IN  /\ e_live = LiveBag([z \in {0} |-> 1], outs)
         /\ e_true = Weight([z \in {0} |-> 1], outs, "true")
         /\ e_false = Weight([z \in {0} |-> 1], outs, "false")
         /\ e_panic = Weight([z \in {0} |-> 1], outs, "panic")

\* every continuation is extended by one more word of the source
e_draw ==
  /\ e_call.op # "none"
  /\ e_words < MaxDraws
  /\ e_words' = e_words + 1
  /\ LET outs == e_after(e_call, e_live)
     IN  /\ e_live' = LiveBag(e_live, outs)
         /\ e_true' = WordMod * e_true + Weight(e_live, outs, "true")
         /\ e_false' = WordMod * e_false + Weight(e_live, outs, "false")
         /\ e_panic' = WordMod * e_panic + Weight(e_live, outs, "panic")
  /\ UNCHANGED e_call

DistInit ==
  FlipperInit /\ EnsembleInit /\ PairIdle /\ overflow_checks = e_call.overflow_checks
DistNext == e_draw /\ UNCHANGED <<flipper_vars, pair_vars>>
SpecDist == DistInit /\ [][DistNext]_vars

\* number of bits of the continuations, and their number
e_bits == e_call.chunk_remaining + WordBits * e_words
e_total == Pow2(e_bits)
e_undecided == SumOver(e_live, DOMAIN e_live)

\* ------------------------------------------------------------ paired runs
\* Two calls run side by side on the same words of the source: each run takes
\* the word of a draw when it waits for one, so the i-th word a run draws is
\* the i-th word the other draws. p_call.left and p_call.right are the calls,
\* p_call.chunk_left and p_call.chunk_right the chunks they start from, p_a
\* and p_b the configurations the runs have reached.

PairCall(o, n_, num, den, r, oc) ==
  [op |-> o, n |-> n_, numerator |-> num, denominator |-> den,
   chunk_remaining |-> r, overflow_checks |-> oc]

\* the calls on a flipper of r unconsumed bits; the overflow checks of the
\* build bear on all_next only, and gen_ratio reads the buffer through next()
\* only, so few numerators are taken
CallsFrom(r) ==
  {PairCall("next", 0, 0, 0, r, FALSE)}
  \cup {PairCall("all_next", n0, 0, 0, r, oc) : n0 \in 0 .. (UsizeBits - 1), oc \in BOOLEAN}
  \cup {PairCall("gen_ratio", 0, num, den, r, FALSE) :
          num \in {0, 1, (UsizeMax \div 2) + 1}, den \in Usizes}
  \cup {PairCall("gen_ratio_one_over", one_over_n(den, oc).n, 0, den, r, oc) :
          den \in Usizes, oc \in BOOLEAN}

\* the same call on two flippers that agree on chunk_remaining and on the low
\* chunk_remaining bits of chunk: on the left the bits above are zero, on the
\* right they are arbitrary
HighBitsFrom(r) ==
  {[kind |-> "high_bits", left |-> ec, right |-> ec,
    chunk_left |-> low, chunk_right |-> low + Pow2(r) * high] :
      low \in 0 .. (Pow2(r) - 1), high \in 0 .. (Pow2(WordBits - r) - 1),
      ec \in CallsFrom(r)}
HighBitsPairs == UNION {HighBitsFrom(r) : r \in 0 .. (WordBits - 1)}

\* gen_ratio_one_over(den) on the left and gen_ratio(1, den) on the right,
\* from the same buffer (the buffers of EntryBuffers)
FastPathFrom(r) ==
  {[kind |-> "fast_path",
    left |-> PairCall("gen_ratio_one_over", one_over_n(den, oc).n, 0, den, r, oc),
    right |-> PairCall("gen_ratio", 0, 1, den, r, oc),
    chunk_left |-> c, chunk_right |-> c] :
      den \in 1 .. UsizeMax, oc \in BOOLEAN,
      c \in {x \in Words : x < Pow2(r) \/ (r = 0 /\ x = Pow2(WordBits - 1))}}
FastPathPairs == UNION {FastPathFrom(r) : r \in 0 .. (WordBits - 1)}

PairInit ==
  /\ p_call \in HighBitsPairs \cup FastPathPairs
  /\ p_words = 0
  /\ p_a = e_settle(p_call.left, e_start(p_call.left, p_call.chunk_left))
  /\ p_b = e_settle(p_call.right, e_start(p_call.right, p_call.chunk_right))

\* the source yields a word to the runs that wait for one
p_draw ==
  /\ p_call.kind # "none"
  /\ p_words < MaxDraws
  /\ e_needs(p_call.left, p_a) \/ e_needs(p_call.right, p_b)
  /\ \E w \in Words :
       /\ p_a' = IF e_needs(p_call.left, p_a)
                 THEN e_settle(p_call.left, e_step(p_call.left, p_a, w)) ELSE p_a
       /\ p_b' = IF e_needs(p_call.right, p_b)
                 THEN e_settle(p_call.right, e_step(p_call.right, p_b, w)) ELSE p_b
  /\ p_words' = p_words + 1
  /\ UNCHANGED p_call

SpecPairInit ==
  FlipperInit /\ EnsembleIdle /\ PairInit /\ overflow_checks = p_call.left.overflow_checks
SpecPairNext == p_draw /\ UNCHANGED <<flipper_vars, ensemble_vars>>
SpecPair == SpecPairInit /\ [][SpecPairNext]_vars

\* ================================================================ claims

\* C1: for denominator >= 1, gen_ratio(numerator, denominator) is true with
\* probability numerator/denominator: with numerator >= denominator every
\* continuation returns true; otherwise, among the continuations of every
\* length, those that have returned true are at most numerator/denominator of
\* all, those that have returned false at most 1 - numerator/denominator, and
\* exactly one continuation is still undecided.
C1_GenRatioProbability ==
  (e_call.op = "gen_ratio" /\ e_call.denominator >= 1) =>
    IF e_call.numerator >= e_call.denominator
    THEN e_true = e_total /\ e_false = 0 /\ e_panic = 0
    ELSE /\ e_true * e_call.denominator <= e_call.numerator * e_total
         /\ e_false * e_call.denominator
              <= (e_call.denominator - e_call.numerator) * e_total
         /\ e_true + e_false = e_total - 1

\* a ratio that is no dyadic fraction, two words deep, in the overflow branch
C1_Witness ==
  /\ e_call.op = "gen_ratio"
  /\ e_call.numerator < e_call.denominator
  /\ 2 * e_call.numerator > UsizeMax
  /\ e_call.chunk_remaining = 1
  /\ e_words = 2
  /\ e_true > 0
  /\ e_false > 0

\* C2: for denominator d >= 1, gen_ratio_one_over(d) is true with probability
\* 1/d from every buffer state: among the continuations of every length those
\* that have returned true are at most 1/d of all, those that have returned
\* false at most 1 - 1/d, at most one continuation is undecided, and the true
\* ones and the undecided one together are at least 1/d of all.
C2_OneOverProbability ==
  (e_call.op = "gen_ratio_one_over" /\ e_call.denominator >= 1) =>
    /\ e_true * e_call.denominator <= e_total
    /\ e_false * e_call.denominator <= (e_call.denominator - 1) * e_total
    /\ e_undecided <= 1
    /\ (e_true + e_undecided) * e_call.denominator >= e_total

\* a denominator whose zero run is longer than a word, decided both ways
C2_Witness ==
  /\ e_call.op = "gen_ratio_one_over"
  /\ e_call.denominator >= 1
  /\ e_call.n > WordBits
  /\ e_call.denominator # Pow2(e_call.n)
  /\ e_call.chunk_remaining = 0
  /\ e_panic > 0
  /\ e_words = MaxDraws
  /\ e_true > 0
  /\ e_false > 0

\* the bit i of the stream of the words of hist
HistBit(i) == Bit(hist[(i \div WordBits) + 1], i % WordBits)
\* position in that stream of the first unconsumed bit, at the call and now
CallPos == WordBits - call.chunk_remaining
Pos == WordBits * Len(hist) - chunk_remaining

\* the result and the consumption of a returned all_next(call.n)
AllNextResult ==
  IF result
  THEN /\ Pos - CallPos = call.n
       /\ \A i \in CallPos .. (Pos - 1) : HistBit(i) = 0
  ELSE /\ Pos - CallPos >= 1
       /\ Pos - CallPos <= call.n
       /\ \A i \in CallPos .. (Pos - 2) : HistBit(i) = 0
       /\ HistBit(Pos - 1) = 1

\* C3: all_next(n) returns true iff the next n bits in consumption order are
\* all zero, then consuming exactly those n bits; otherwise it returns false
\* and consumes the zeros before the first one-bit and that bit; also when
\* the n bits span refills. (Every call that ends, ends by returning.)
C3_AllNextContract ==
  (call.op = "all_next" /\ pc \in {"ret", "panicked"}) =>
    pc = "ret" /\ AllNextResult

\* C4: in the overflow branch of gen_ratio (numerator < denominator and
\* 2 * numerator exceeds the width) heads returns true and tails continues
\* with numerator = 2 * numerator - denominator, which lies in
\* [0, denominator); gen_ratio(MAX/2 + 1, MAX) continues with 1 on tails.
C4_OverflowBranch ==
  [][(pc = "gen_ratio" /\ numerator < call.denominator /\ 2 * numerator > UsizeMax) =>
       /\ pc' # "panicked"
       /\ flip' => (pc' = "ret" /\ result')
       /\ ~flip' => /\ pc' = "gen_ratio"
                    /\ numerator' = 2 * numerator - call.denominator
                    /\ numerator' \in 0 .. (call.denominator - 1)
                    /\ (numerator = (UsizeMax \div 2) + 1 /\ call.denominator = UsizeMax)
                         => numerator' = 1]_vars

\* gen_ratio(MAX/2 + 1, MAX) after a first tails
C4_Witness ==
  /\ pc = "gen_ratio"
  /\ call.op = "gen_ratio"
  /\ call.numerator = (UsizeMax \div 2) + 1
  /\ call.denominator = UsizeMax
  /\ ~flip
  /\ numerator = 1

\* the calls that need no randomness
NeedsNoBits ==
  \/ call.op = "gen_ratio" /\ call.numerator >= call.denominator
  \/ call.op = "all_next" /\ call.n = 0
  \/ call.op = "gen_ratio_one_over" /\ call.denominator = 1

\* C5: gen_ratio with numerator >= denominator, all_next(0) and
\* gen_ratio_one_over(1) return true, draw no word and leave chunk and
\* chunk_remaining as they were, from every state.
C5_NoRandomnessNeeded ==
  NeedsNoBits =>
    /\ pc # "panicked"
    /\ drawn = 0
    /\ chunk = call.chunk
    /\ chunk_remaining = call.chunk_remaining
    /\ pc = "all_next" => chunk_remaining >= n
    /\ pc = "gen_ratio" => numerator >= call.denominator
    /\ pc = "ret" => result

\* gen_ratio_one_over(1) returned on a buffer that holds a one-bit
C5_Witness ==
  /\ pc = "ret"
  /\ call.op = "gen_ratio_one_over"
  /\ call.denominator = 1
  /\ chunk_remaining > 0
  /\ chunk % 2 = 1

\* C6: gen_ratio(0, d) with d >= 1 never returns true.
C6_ZeroNumeratorIsFalse ==
  (pc = "ret" /\ call.op = "gen_ratio" /\ call.numerator = 0 /\ call.denominator >= 1)
    => ~result

\* gen_ratio(0, d) returned after heads and then tails, across a refill
C6_Witness ==
  /\ pc = "ret"
  /\ call.op = "gen_ratio"
  /\ call.numerator = 0
  /\ call.denominator >= 1
  /\ call.chunk_remaining = 1
  /\ drawn = 1
  /\ chunk_remaining = WordBits - 1
  /\ ~result

\* C7: a call of gen_ratio or gen_ratio_one_over with denominator 0 never
\* returns a boolean and consumes no bit.
C7_ZeroDenominatorFailsFast ==
  (call.op \in {"gen_ratio", "gen_ratio_one_over"} /\ call.denominator = 0) =>
    /\ pc # "ret"
    /\ drawn = 0
    /\ chunk_remaining = call.chunk_remaining

\* the unconsumed bits of the buffer are the top chunk_remaining bits of the
\* last word drawn, in their order
BufferIsSuffix ==
  chunk % Pow2(chunk_remaining) = Last(hist) \div Pow2(WordBits - chunk_remaining)

\* a step that draws a word draws one, after every bit of the word before
\* has been consumed (in all_next: the bits left are the zeros the run takes,
\* and the run needs more), and buffers the whole word
DrawsOnDemand ==
  (drawn' > drawn) =>
    /\ drawn' = drawn + 1
    /\ \/ chunk_remaining = 0
       \/ /\ pc = "all_next"
          /\ chunk % Pow2(chunk_remaining) = 0
          /\ n' = n - chunk_remaining
          /\ n' >= 1
    /\ \/ chunk_remaining' = WordBits /\ chunk' = Last(hist')
       \/ chunk_remaining' = WordBits - 1 /\ chunk' = Last(hist') \div 2

\* a step that draws no word only takes bits off the buffer
ConsumesInOrder ==
  (drawn' = drawn /\ pc # "idle" /\ pc' # "idle") =>
    /\ chunk_remaining' <= chunk_remaining
    /\ Last(hist') = Last(hist)

\* a step that runs next() takes the one bit that follows the consumed ones
NextTakesOneBit ==
  LET ran == \/ pc = "idle" /\ call'.op = "next"
             \/ pc = "gen_ratio" /\ numerator < call.denominator
      bit == IF pc = "idle" THEN result' ELSE flip'
  IN  ran =>
        /\ chunk_remaining' = IF chunk_remaining = 0 THEN WordBits - 1
                              ELSE chunk_remaining - 1
        /\ bit = (Bit(Last(hist'), WordBits - 1 - chunk_remaining') = 0)

\* C8: the bits consumed are the bits of the words drawn, low-order first, each
\* once and none skipped; a word is drawn only when the bits of the word
\* before are consumed and one more is needed, one word per refill.
C8_BitsOfTheSource ==
  /\ [](BufferIsSuffix /\ ((call.op = "all_next" /\ pc = "ret") => AllNextResult))
  /\ [][DrawsOnDemand /\ ConsumesInOrder /\ NextTakesOneBit]_vars

\* all_next(n) returned true over two refills
C8_Witness ==
  /\ pc = "ret"
  /\ call.op = "all_next"
  /\ drawn = 2
  /\ result
  /\ chunk_remaining > 0
  /\ chunk > 0

\* the live configuration of a gen_ratio call and the two outcomes of its coin
LoopOutcome(f, heads) ==
  LET o == gen_ratio_body(f.numerator, e_call.denominator, heads)
  IN  IF o.kind = "return" THEN IF o.result THEN "true" ELSE "false"
      ELSE IF o.numerator >= e_call.denominator THEN "true"
      ELSE "continue"

\* C10: in every pass of the loop of gen_ratio one outcome of the coin ends
\* the call and the other continues it: tails ends it (false) when
\* 2 * numerator < denominator, heads ends it (true) otherwise. So among the
\* continuations of every length exactly one is undecided: the call consumes
\* exactly k bits on one pattern of k bits.
C10_OneOutcomeEnds ==
  (e_call.op = "gen_ratio" /\ e_call.numerator < e_call.denominator) =>
    /\ e_undecided = 1
    /\ e_true + e_false + e_undecided = e_total
    /\ \A f \in DOMAIN e_live :
         /\ f.numerator < e_call.denominator
         /\ IF 2 * f.numerator < e_call.denominator
            THEN LoopOutcome(f, FALSE) = "false" /\ LoopOutcome(f, TRUE) = "continue"
            ELSE LoopOutcome(f, TRUE) = "true" /\ LoopOutcome(f, FALSE) = "continue"

\* a call three words deep whose live numerator is in the overflow branch
C10_Witness ==
  /\ e_call.op = "gen_ratio"
  /\ e_call.numerator < e_call.denominator
  /\ e_words = MaxDraws
  /\ \E f \in DOMAIN e_live : 2 * f.numerator > UsizeMax
  /\ e_true > 1
  /\ e_false > 1

\* the bits the call in progress has consumed
Consumed == WordBits * drawn + call.chunk_remaining - chunk_remaining

\* the doublings after which the numerator m >= 1 is no longer below d
Doublings(m, d) ==
  CHOOSE k \in 0 .. UsizeBits :
    Pow2(k) * m >= d /\ \A j \in 0 .. (k - 1) : Pow2(j) * m < d

\* C11 as stated: a call gen_ratio(numerator, denominator) with numerator >= 1
\* and denominator >= 1 consumes at most as many bits as the doublings that
\* take the numerator to the denominator.
C11_DepthBounded ==
  (call.op = "gen_ratio" /\ call.numerator >= 1 /\ call.denominator >= 1)
    => Consumed <= Doublings(call.numerator, call.denominator)

\* C11: every pass of the loop of gen_ratio consumes exactly one bit; with a
\* numerator >= 1 a heads pass either returns true or takes one doubling off
\* those the numerator still needs to reach the denominator, and when none is
\* needed the call returns true without a bit. So a run of heads is bounded by
\* the doublings needed; a tails pass is under no such bound.
C11_HeadsBounded ==
  [][(pc = "gen_ratio" /\ numerator >= 1 /\ call.denominator >= 1) =>
       IF numerator >= call.denominator
       THEN pc' = "ret" /\ result' /\ Consumed' = Consumed
       ELSE /\ Consumed' = Consumed + 1
            /\ flip' =>
                 \/ pc' = "ret" /\ result'
                 \/ /\ pc' = "gen_ratio"
                    /\ Doublings(numerator', call.denominator)
                         = Doublings(numerator, call.denominator) - 1]_vars

\* gen_ratio(1, 3) still runs after five bits, the last one heads: more bits
\* than the two doublings from 1 to 3
C11_Witness ==
  /\ pc = "gen_ratio"
  /\ call.op = "gen_ratio" /\ call.numerator = 1 /\ call.denominator = 3
  /\ flip
  /\ Consumed >= 5
  /\ Consumed > Doublings(call.numerator, call.denominator)

\* the value of an outcome of a pass, as a numerator over d: d when the call
\* returns true, 0 when it returns false, min(n', d) when it continues with n'
OutcomeValue(o, d) ==
  IF o.kind = "return" THEN (IF o.result THEN d ELSE 0)
  ELSE IF o.numerator < d THEN o.numerator ELSE d

\* C12: in every pass of the loop of gen_ratio (numerator n < denominator d)
\* the value of the outcome the pass takes and the value of the outcome of the
\* other face of the coin sum to 2n, in the normal and in the overflow branch.
C12_StepPreservesRatio ==
  [][(pc = "gen_ratio" /\ numerator < call.denominator) =>
       LET d == call.denominator
           taken == [kind |-> IF pc' = "ret" THEN "return" ELSE "loop",
                     numerator |-> numerator', result |-> result']
           other == gen_ratio_body(numerator, d, ~flip')
       IN  OutcomeValue(taken, d) + OutcomeValue(other, d) = 2 * numerator]_vars

\* a heads pass of the normal branch has taken the numerator above the
\* denominator, after a tails pass of the overflow branch earlier in the call
C12_Witness ==
  /\ pc = "gen_ratio"
  /\ call.op = "gen_ratio"
  /\ 2 * call.numerator > UsizeMax
  /\ call.numerator < call.denominator
  /\ flip
  /\ numerator > call.denominator

\* the call has consumed exactly call.n bits, all zero
ZeroRunTaken ==
  /\ Pos - CallPos = call.n
  /\ \A i \in CallPos .. (Pos - 1) : HistBit(i) = 0

\* the call has consumed at most call.n bits: zeros, then a one
FirstOneTaken ==
  /\ Pos - CallPos >= 1
  /\ Pos - CallPos <= call.n
  /\ \A i \in CallPos .. (Pos - 2) : HistBit(i) = 0
  /\ HistBit(Pos - 1) = 1

\* C13: for d >= 1, gen_ratio_one_over(d) runs all_next(n) with
\* 2^n <= d < 2^(n+1), 2^n within the width. When all_next ends false (the
\* zeros before the first one-bit and that bit consumed) the call returns
\* false in that step, consuming nothing more; when it ends true (n zero bits
\* consumed) the call goes on as gen_ratio(2^n, d): numerator 2^n, then the
\* passes of the loop of gen_ratio on the bits that follow, whose result it
\* returns.
C13_OneOverIsAllNextThenRatio ==
  /\ []((call.op = "gen_ratio_one_over" /\ call.denominator >= 1) =>
          /\ call.n \in 0 .. (UsizeBits - 1)
          /\ Pow2(call.n) <= call.denominator
          /\ call.denominator < Pow2(call.n + 1)
          /\ Pow2(call.n) <= UsizeMax)
  /\ [][(call.op = "gen_ratio_one_over" /\ call.denominator >= 1) =>
          /\ (pc = "all_next" /\ pc' = "ret") => (~result' /\ FirstOneTaken')
          /\ (pc = "all_next" /\ pc' = "gen_ratio") =>
               (numerator' = Pow2(call.n) /\ ZeroRunTaken')
          /\ (pc = "all_next" /\ pc' = "panicked") => chunk_remaining < n
          /\ pc = "gen_ratio" =>
               LET o == IF numerator >= call.denominator
                        THEN [kind |-> "return", numerator |-> numerator, result |-> TRUE]
                        ELSE gen_ratio_body(numerator, call.denominator, flip')
               IN  /\ pc' = IF o.kind = "return" THEN "ret" ELSE "gen_ratio"
                   /\ numerator' = o.numerator
                   /\ result' = o.result
                   /\ Consumed' = IF numerator >= call.denominator
                                  THEN Consumed ELSE Consumed + 1]_vars

\* gen_ratio_one_over(d) returned true, d no power of two with the longest
\* zero run, taken over two words
C13_Witness ==
  /\ pc = "ret"
  /\ call.op = "gen_ratio_one_over"
  /\ call.n = UsizeBits - 1
  /\ call.denominator > Pow2(call.n)
  /\ result
  /\ drawn = 2

\* C14: a step that runs next() consumes exactly one bit. With
\* chunk_remaining > 0 it decrements chunk_remaining and draws no word; with
\* chunk_remaining = 0 it draws exactly one word and sets chunk_remaining to
\* the width less one. The result is true iff bit 0 of the (refilled) chunk is
\* 0, and chunk is that chunk shifted right by one. It is true for one of the
\* two values of the bit consumed, and for half of the refill words.
C14_NextConsumesOneBit ==
  [][LET ran == \/ pc = "idle" /\ call'.op = "next"
                \/ pc = "gen_ratio" /\ numerator < call.denominator
         bit == IF pc = "idle" THEN result' ELSE flip'
         c1 == IF chunk_remaining = 0 THEN Last(hist') ELSE chunk
     IN  ran =>
           /\ IF chunk_remaining > 0
              THEN chunk_remaining' = chunk_remaining - 1 /\ drawn' = drawn
              ELSE chunk_remaining' = WordBits - 1 /\ drawn' = drawn + 1
           /\ bit = (Bit(c1, 0) = 0)
           /\ chunk' = c1 \div 2
           /\ IF chunk_remaining > 0
              THEN /\ next(2 * (chunk \div 2), chunk_remaining, 0).result
                   /\ ~next(2 * (chunk \div 2) + 1, chunk_remaining, 0).result
              ELSE 2 * Cardinality({w \in Words : next(chunk, 0, w).result}) = WordMod]_vars

\* next() returned true after a refill whose word has bits set above bit 0
C14_Witness ==
  /\ pc = "ret"
  /\ call.op = "next"
  /\ drawn = 1
  /\ chunk_remaining = WordBits - 1
  /\ result
  /\ chunk > 0

\* C15: in every state reachable from new() by calls of next, all_next,
\* gen_ratio and gen_ratio_one_over, the states inside a call included,
\* chunk_remaining is between 0 and the width of a word.
C15_ChunkRemainingInRange ==
  chunk_remaining \in 0 .. WordBits

\* inside all_next, after a second refill: the whole word is unconsumed
C15_Witness ==
  /\ pc = "all_next"
  /\ drawn = 2
  /\ chunk_remaining = WordBits
  /\ call.chunk_remaining > 0

\* the word a step works on (the word it drew, if it drew one), the bits of
\* that word not yet consumed before the step, and the bits the step consumes
StepWord == IF drawn' > drawn THEN Last(hist') ELSE chunk
StepWordBits == IF drawn' > drawn THEN WordBits ELSE chunk_remaining
StepTakes == StepWordBits - chunk_remaining'

\* C16 as stated: a step of next or all_next that consumes k bits of the
\* buffered word and completes leaves chunk equal to that word shifted right
\* by k, zero when k is the whole width, and chunk_remaining lower by k.
C16_ShiftedByK ==
  [][(pc # "ret" /\ pc' # "panicked") =>
       /\ StepTakes \in 0 .. WordBits
       /\ chunk' = IF StepTakes = WordBits THEN 0
                   ELSE StepWord \div Pow2(StepTakes)]_vars

\* C16: a step of next or all_next that consumes k bits of the buffered word
\* lowers chunk_remaining by k, k in 0 .. width; for k below the width chunk
\* is the word shifted right by k, and for k equal to the width chunk is left
\* as it was (the shift amount wraps to 0, or the shift faults after
\* chunk_remaining was lowered).
C16_ShiftedBelowWidth ==
  [][pc # "ret" =>
       /\ StepTakes \in 0 .. WordBits
       /\ chunk' = IF StepTakes = WordBits THEN StepWord
                   ELSE StepWord \div Pow2(StepTakes)]_vars

\* all_next returned false having consumed a whole word whose only one-bit is
\* the top bit, in the build with overflow checks: chunk keeps that bit
C16_Witness ==
  /\ pc = "ret"
  /\ call.op = "all_next"
  /\ overflow_checks
  /\ ~result
  /\ drawn = 1
  /\ chunk_remaining = 0
  /\ chunk = Pow2(WordBits - 1)

\* C17: the bits of chunk at the positions chunk_remaining and above are never
\* read. Two flippers that agree on chunk_remaining and on the low
\* chunk_remaining bits of chunk, given the same call and the same words,
\* stand at every draw at the same point of the call with the same locals n
\* and numerator, wait for a word together, return the same boolean (or panic
\* together) and have the same chunk_remaining; their chunks again agree on
\* the low chunk_remaining bits, so the same holds of the calls that follow.
C17_HighBitsNeverRead ==
  p_call.kind = "high_bits" =>
    /\ p_a.pc = p_b.pc
    /\ p_a.result = p_b.result
    /\ p_a.chunk_remaining = p_b.chunk_remaining
    /\ p_a.n = p_b.n
    /\ p_a.numerator = p_b.numerator
    /\ e_needs(p_call.left, p_a) = e_needs(p_call.right, p_b)
    /\ p_a.chunk % Pow2(p_a.chunk_remaining) = p_b.chunk % Pow2(p_b.chunk_remaining)

\* all_next returned false after a draw, its zero run begun in the unconsumed
\* bits of two flippers whose chunks differ above them
C17_Witness ==
  /\ p_call.kind = "high_bits"
  /\ p_call.left.op = "all_next"
  /\ p_call.left.chunk_remaining > 0
  /\ p_call.chunk_left # p_call.chunk_right
  /\ p_words = 1
  /\ p_a.pc = "ret"
  /\ p_b.pc = "ret"
  /\ ~p_a.result

\* C18: for every denominator >= 1, a call of gen_ratio_one_over runs to its
\* return on every sequence of words: no shift of chunk by the whole width, no
\* subtraction that underflows, no other arithmetic fault.
C18_NoArithmeticFault ==
  (call.op = "gen_ratio_one_over" /\ call.denominator >= 1) => pc # "panicked"

\* C19: for every denominator d >= 1, from the same buffer and on the same
\* words, gen_ratio_one_over(d) and gen_ratio(1, d) return the same boolean
\* whenever both return.
C19_FastPathAgrees ==
  (p_call.kind = "fast_path" /\ p_a.pc = "ret" /\ p_b.pc = "ret")
    => p_a.result = p_b.result

\* both calls returned true after two words, d no power of two and its zero
\* run longer than a word
C19_Witness ==
  /\ p_call.kind = "fast_path"
  /\ p_call.left.n > WordBits
  /\ p_call.left.denominator > Pow2(p_call.left.n)
  /\ p_words = 2
  /\ p_a.pc = "ret"
  /\ p_b.pc = "ret"
  /\ p_a.result
  /\ p_b.result

====
